---- MODULE Spec2Model ----
(***************************************************************************)
(* State-machine model of the rstun server: the QUIC accept loop, the      *)
(* login handshake (Out and In mode), the shared vector of allocated       *)
(* access-server ports, the In-mode forwarder with its control watcher,    *)
(* and the TCP access listener with its accept task.                       *)
(***************************************************************************)
EXTENDS Integers, Sequences, FiniteSets, TLC

(***************************************************************************)
(* Bounds of the model.                                                    *)
(***************************************************************************)
\* number of QUIC connections the endpoint produces
NConn == 2
\* TCP connections external clients may have pending at one access listener
MaxBacklog == 1
\* number of QUIC connections in the single-client runs
NSolo == 1
\* streams a client opens on one Out-mode connection
MaxStreams == 2

Conn == 1..NConn

(***************************************************************************)
(* Program constants.                                                      *)
(***************************************************************************)
\* channel(4) between the accept task and the forwarder
ChannelCap == 4
\* u16 port numbers
MaxPort == 65535
\* a u64 is held as four 16-bit limbs, lowest first; `as u32` keeps two
Limb == 65536

(***************************************************************************)
(* Inputs: passwords, textual addresses, login messages.                   *)
(***************************************************************************)
ConfigPassword == "p"

\* A textual address is the sequence of its ':'-separated fields.
OutAddrStrings == {<<"a", 1>>, <<"a", 2>>, <<"b", 1>>, <<"a">>}
InAddrStrings == {<<"a", 0>>, <<"a", 1>>, <<"a", 65536>>}

\* the allow-lists the server may be configured with: none, or one endpoint
AllowList == {[host |-> "a", port |-> 1]}
DownstreamConfigs == {{}, AllowList}

\* ports the OS hands out for a bind to port 0
EphemeralPorts == {2, 3}

\* values outside the u16 range stand for "no address" and "no port"
NoPort == MaxPort + 1
NoAddr == [host |-> "", port |-> NoPort]
NoTunnel == [kind |-> "none", dst |-> NoAddr]

\* The first messages a client may send: logins with the right password
\* and every address, logins with a wrong password, and a message that is
\* no login request.
LoginMessages ==
    [kind : {"ReqOutLogin"}, password : {"p"}, addr : OutAddrStrings]
      \cup [kind : {"ReqInLogin"}, password : {"p"}, addr : InAddrStrings]
      \cup [kind : {"ReqOutLogin", "ReqInLogin"}, password : {"q"},
            addr : {<<"a", 1>>}]
      \cup {[kind |-> "RespSuccess", password |-> "", addr |-> <<>>]}

NoMessage == [kind |-> "none", password |-> "", addr |-> <<>>]

\* config.max_idle_timeout_ms, a u64: every limb zero, one or all ones
IdleLimbs == {0, 1, Limb - 1}
IdleTimeouts == [1..4 -> IdleLimbs]

\* config.cert_path and config.key_path: empty or the name of a file
CertPaths == {"", "cert.pem"}
KeyPaths == {"", "key.pem"}

\* None of an Option
Unset == <<>>

\* the configuration of the server in the runs that start at the accept loop
DefaultConfig ==
    [max_idle_timeout_ms |-> [i \in 1..4 |-> 0], cert_path |-> "", key_path |-> ""]

VARIABLES
    serverPc,     \* accept loop of Server::start: "accept" or "quit"
    endpointOpen, \* the endpoint still produces connections
    incoming,     \* connections the clients will still make to the endpoint
    downstreams,  \* config.downstreams
    ports,        \* access_server_ports, a Vec<u16>
    lockHolder,   \* owner of the access_server_ports mutex, 0 when free
    pc,           \* position of each per-connection task
    req,          \* the first message read on the login stream
    resp,         \* the response handed to TunnelMessage::send
    failure,      \* why the per-connection task ended with an error
    tunnel,       \* the TunnelType the handshake produced
    bound,        \* port the access listener is bound to, NoPort when none
    active,       \* the listener's active flag
    rxOpen,       \* the channel's receiver exists
    chan,         \* the channel's queued messages
    acc,          \* position of the accept task
    backlog,      \* TCP connections waiting to be accepted
    ctrl,         \* position of the control watcher
    removed,      \* times the session removed a port from the vector
    shut,         \* the session called shutdown on its listener
    maxIdleTimeoutMs, \* config.max_idle_timeout_ms
    idleTimeout,  \* transport_cfg.max_idle_timeout, in ms
    keepAlive,    \* transport_cfg.keep_alive_interval, in ms
    certPath,     \* config.cert_path
    keyPath,      \* config.key_path
    certSource,   \* the branch read_cert_and_key took: "generated" or "disk"
    warned,       \* the self-signed warning was logged
    streams,      \* Out mode: the per-stream tasks, in the order of accept_bi
    acceptErr     \* Out mode: the error that accept_bi returned

vars == <<serverPc, endpointOpen, incoming, downstreams, ports, lockHolder, pc, req, resp,
          failure, tunnel, bound, active, rxOpen, chan, acc, backlog,
          ctrl, removed, shut, streams, acceptErr, maxIdleTimeoutMs,
          idleTimeout, keepAlive, certPath, keyPath, certSource, warned>>

connVars == <<pc, req, resp, failure, tunnel>>
lsnVars == <<bound, active, rxOpen, chan, acc, backlog>>
histVars == <<removed, shut>>
outVars == <<streams, acceptErr>>
startVars == <<maxIdleTimeoutMs, idleTimeout, keepAlive, certPath, keyPath,
               certSource, warned>>

(***************************************************************************)
(* Pure helpers.                                                           *)
(***************************************************************************)
\* str.parse::<SocketAddr>(): host and port, the port a u16
ParseAddr(s) ==
    IF Len(s) = 2 /\ s[2] \in 0..MaxPort
    THEN [host |-> s[1], port |-> s[2]]
    ELSE NoAddr

ContainsNothing(v, p) == FALSE

\* Vec::contains
Contains(v, p) == \E i \in 1..Len(v) : v[i] = p

\* iter().position(|x| *x == p): first index holding p, 0 for None
Position(v, p) ==
    IF Contains(v, p)
    THEN CHOOSE i \in 1..Len(v) : v[i] = p /\ \A j \in 1..(i - 1) : v[j] # p
    ELSE 0

\* Vec::remove(index)
RemoveAt(v, i) == [j \in 1..(Len(v) - 1) |-> IF j < i THEN v[j] ELSE v[j + 1]]

CheckPasswordAny(password1, password2) == TRUE

\* check_password: Ok iff the two strings are equal
CheckPassword(password1, password2) == password1 = password2

DownstreamAllowedStrict(allowed, dst) == dst \in allowed

\* the allow-list test of the Out login
DownstreamAllowed(allowed, dst) == allowed = {} \/ dst \in allowed

LoginArmDefaultIn(m) == IF m.kind = "ReqOutLogin" THEN "out" ELSE "in"

\* the arm of the match on the first message
LoginArm(m) ==
    CASE m.kind = "ReqOutLogin" -> "out"
      [] m.kind = "ReqInLogin" -> "in"
      [] OTHER -> "other"

TaskExitAborts(loop, err) == IF err THEN "quit" ELSE loop

\* A task's error ends in its dropped JoinHandle; the accept loop goes on.
TaskExit(loop, err) == loop

BoundPorts == {bound[c] : c \in Conn} \ {NoPort}

MutexAlwaysFree(holder) == TRUE

\* Mutex::lock().await completes only while no task holds the guard
MutexFree(holder) == holder = 0

(***************************************************************************)
(* Server::start up to the accept loop: certificate and transport.         *)
(***************************************************************************)
IsZero(v) == \A i \in 1..4 : v[i] = 0

\* `v as u32`, widened again by VarInt::from_u32: the two low limbs
AsU32(v) == [i \in 1..4 |-> IF i <= 2 THEN v[i] ELSE 0]

\* v / 2 on a u64: every limb shifted right, taking the next limb's low bit
Half(v) ==
    [i \in 1..4 |->
        (v[i] \div 2) + (IF i < 4 THEN (v[i + 1] % 2) * (Limb \div 2) ELSE 0)]

\* the idle timeout start() configures
IdleTimeoutOf(v) == IF ~IsZero(v) THEN AsU32(v) ELSE Unset

\* the keep-alive interval start() configures
KeepAliveOf(v) == IF ~IsZero(v) THEN Half(v) ELSE Unset

\* the branch of read_cert_and_key: only cert_path is looked at
CertBranch(cert_path, key_path) == IF cert_path = "" THEN "generated" ELSE "disk"

\* std::fs::read succeeds on a named file that can be read
ReadOk(path, readable) == path # "" /\ path \in readable

(***************************************************************************)
(* Initial states: Server::new; start() at its beginning, or at the accept *)
(* loop.                                                                   *)
(***************************************************************************)
InitWith(configs, n) ==
    /\ serverPc = "accept"
    /\ endpointOpen = TRUE
    /\ incoming = n
    /\ downstreams \in configs
    /\ ports = <<>>
    /\ lockHolder = 0
    /\ pc = [c \in Conn |-> "idle"]
    /\ req = [c \in Conn |-> NoMessage]
    /\ resp = [c \in Conn |-> "none"]
    /\ failure = [c \in Conn |-> "none"]
    /\ tunnel = [c \in Conn |-> NoTunnel]
    /\ bound = [c \in Conn |-> NoPort]
    /\ active = [c \in Conn |-> FALSE]
    /\ rxOpen = [c \in Conn |-> FALSE]
    /\ chan = [c \in Conn |-> <<>>]
    /\ acc = [c \in Conn |-> "none"]
    /\ backlog = [c \in Conn |-> 0]
    /\ ctrl = [c \in Conn |-> "none"]
    /\ removed = [c \in Conn |-> 0]
    /\ shut = [c \in Conn |-> FALSE]
    /\ streams = [c \in Conn |-> <<>>]
    /\ acceptErr = [c \in Conn |-> "none"]
    /\ maxIdleTimeoutMs = DefaultConfig.max_idle_timeout_ms
    /\ idleTimeout = IdleTimeoutOf(DefaultConfig.max_idle_timeout_ms)
    /\ keepAlive = KeepAliveOf(DefaultConfig.max_idle_timeout_ms)
    /\ certPath = DefaultConfig.cert_path
    /\ keyPath = DefaultConfig.key_path
    /\ certSource = CertBranch(DefaultConfig.cert_path, DefaultConfig.key_path)
    /\ warned = (DefaultConfig.cert_path = "")

\* a server configured with an allow-list
Init == InitWith({AllowList}, NConn)

\* a server, with or without an allow-list, that a single client connects to
InitOne == InitWith(DownstreamConfigs, NSolo)

\* a server, under any configuration, whose start() is about to run
InitStart ==
    /\ serverPc = "read_cert"
    /\ endpointOpen = FALSE
    /\ incoming = 0
    /\ downstreams = AllowList
    /\ ports = <<>>
    /\ lockHolder = 0
    /\ pc = [c \in Conn |-> "idle"]
    /\ req = [c \in Conn |-> NoMessage]
    /\ resp = [c \in Conn |-> "none"]
    /\ failure = [c \in Conn |-> "none"]
    /\ tunnel = [c \in Conn |-> NoTunnel]
    /\ bound = [c \in Conn |-> NoPort]
    /\ active = [c \in Conn |-> FALSE]
    /\ rxOpen = [c \in Conn |-> FALSE]
    /\ chan = [c \in Conn |-> <<>>]
    /\ acc = [c \in Conn |-> "none"]
    /\ backlog = [c \in Conn |-> 0]
    /\ ctrl = [c \in Conn |-> "none"]
    /\ removed = [c \in Conn |-> 0]
    /\ shut = [c \in Conn |-> FALSE]
    /\ streams = [c \in Conn |-> <<>>]
    /\ acceptErr = [c \in Conn |-> "none"]
    /\ maxIdleTimeoutMs \in IdleTimeouts
    /\ idleTimeout = Unset
    /\ keepAlive = Unset
    /\ certPath \in CertPaths
    /\ keyPath \in KeyPaths
    /\ certSource = "none"
    /\ warned = FALSE

\* what the start of the server leaves alone
sessionVars == <<endpointOpen, incoming, downstreams, ports, lockHolder, connVars,
                 lsnVars, ctrl, histVars, outVars>>

\* read_cert_and_key: without a cert_path the warning is logged and a
\* self-signed certificate generated; otherwise both files are read, and a
\* file that cannot be read fails start().
ReadCertAndKey(readable) ==
    /\ serverPc = "read_cert"
    /\ certSource' = CertBranch(certPath, keyPath)
    /\ warned' = (CertBranch(certPath, keyPath) = "generated")
    /\ serverPc' =
         IF CertBranch(certPath, keyPath) = "generated"
              \/ (ReadOk(certPath, readable) /\ ReadOk(keyPath, readable))
         THEN "transport" ELSE "error"
    /\ UNCHANGED <<sessionVars, maxIdleTimeoutMs, idleTimeout, keepAlive,
                   certPath, keyPath>>

\* The transport configuration: idle timeout and keep-alive interval are
\* set when max_idle_timeout_ms > 0; start() goes on to its accept loop.
ConfigureTransport ==
    /\ serverPc = "transport"
    /\ idleTimeout' = IdleTimeoutOf(maxIdleTimeoutMs)
    /\ keepAlive' = KeepAliveOf(maxIdleTimeoutMs)
    /\ serverPc' = "accept"
    /\ UNCHANGED <<sessionVars, maxIdleTimeoutMs, certPath, keyPath, certSource,
                   warned>>

(***************************************************************************)
(* Server::start: the accept loop and the spawned per-connection task.     *)
(***************************************************************************)
\* The per-connection task ends with an error: `?` in the spawned block.
Fail(c, why) ==
    /\ pc' = [pc EXCEPT ![c] = "failed"]
    /\ failure' = [failure EXCEPT ![c] = why]
    /\ serverPc' = TaskExit(serverPc, TRUE)

\* endpoint.accept() yields a connection; its task is spawned.
AcceptConn(c) ==
    /\ serverPc = "accept"
    /\ endpointOpen
    /\ incoming > 0
    /\ pc[c] = "idle"
    /\ \A d \in Conn : d < c => pc[d] # "idle"
    /\ pc' = [pc EXCEPT ![c] = "connecting"]
    /\ incoming' = incoming - 1
    /\ UNCHANGED <<serverPc, endpointOpen, downstreams, outVars, startVars, ports, lockHolder, req,
                   resp, failure, tunnel, lsnVars, ctrl, histVars>>

\* endpoint.accept() yields None: the loop ends and start() returns Ok.
EndpointStop ==
    /\ serverPc = "accept"
    /\ endpointOpen
    /\ endpointOpen' = FALSE
    /\ serverPc' = "quit"
    /\ UNCHANGED <<incoming, downstreams, outVars, startVars, ports, lockHolder, connVars, lsnVars, ctrl,
                   histVars>>

\* client_conn.await: the QUIC handshake completes or fails.
Connecting(c) ==
    /\ pc[c] = "connecting"
    /\ \/ /\ pc' = [pc EXCEPT ![c] = "login"]
          /\ UNCHANGED <<failure, serverPc>>
       \/ Fail(c, "connect")
    /\ UNCHANGED <<endpointOpen, incoming, downstreams, outVars, startVars, ports, lockHolder, req, resp,
                   tunnel, lsnVars, ctrl, histVars>>

(***************************************************************************)
(* Server::authenticate_connection.                                        *)
(***************************************************************************)
\* accept_bi() or TunnelMessage::recv fails.
LoginRecvFail(c) ==
    /\ pc[c] = "login"
    /\ Fail(c, "recv")
    /\ UNCHANGED <<endpointOpen, incoming, downstreams, outVars, startVars, ports, lockHolder, req, resp,
                   tunnel, lsnVars, ctrl, histVars>>

\* The first message m is read and handled up to the next await.
LoginRecv(c, m) ==
    /\ pc[c] = "login"
    /\ req' = [req EXCEPT ![c] = m]
    /\ LET arm == LoginArm(m)
           addr == ParseAddr(m.addr)
       IN  IF arm = "other"
           THEN Fail(c, "unexpected")
           ELSE IF ~CheckPassword(ConfigPassword, m.password)
           THEN Fail(c, "password")
           ELSE IF addr = NoAddr
           THEN Fail(c, "parse")
           ELSE IF arm = "in"
           THEN /\ pc' = [pc EXCEPT ![c] = "in_lock"]
                /\ UNCHANGED <<failure, serverPc>>
           ELSE IF ~DownstreamAllowed(downstreams, addr)
           THEN Fail(c, "denied")
           ELSE /\ pc' = [pc EXCEPT ![c] = "out_resp"]
                /\ UNCHANGED <<failure, serverPc>>
    /\ UNCHANGED <<endpointOpen, incoming, downstreams, outVars, startVars, ports, lockHolder, resp, tunnel,
                   lsnVars, ctrl, histVars>>

\* Out login: RespSuccess is sent; the result is TunnelType::Out.
OutResp(c) ==
    /\ pc[c] = "out_resp"
    /\ resp' = [resp EXCEPT ![c] = "RespSuccess"]
    /\ \/ /\ tunnel' = [tunnel EXCEPT
                          ![c] = [kind |-> "Out", dst |-> ParseAddr(req[c].addr)]]
          /\ pc' = [pc EXCEPT ![c] = "out_loop"]
          /\ UNCHANGED <<failure, serverPc>>
       \/ /\ Fail(c, "send")
          /\ UNCHANGED tunnel
    /\ UNCHANGED <<endpointOpen, incoming, downstreams, outVars, startVars, ports, lockHolder, req, lsnVars,
                   ctrl, histVars>>

\* In login: the port lock is taken and the requested port looked up.
InLock(c) ==
    /\ pc[c] = "in_lock"
    /\ MutexFree(lockHolder)
    /\ lockHolder' = c
    /\ IF Contains(ports, ParseAddr(req[c].addr).port)
       THEN /\ pc' = [pc EXCEPT ![c] = "in_resp_fail"]
            /\ failure' = [failure EXCEPT ![c] = "inuse"]
       ELSE /\ pc' = [pc EXCEPT ![c] = "in_bind"]
            /\ UNCHANGED failure
    /\ UNCHANGED <<serverPc, endpointOpen, incoming, downstreams, outVars, startVars, ports, req, resp,
                   tunnel, lsnVars, ctrl, histVars>>

\* The port the OS binds for a requested port: itself, or a free ephemeral
\* port (here the lowest) for 0; no port when the requested one is taken.
BindChoices(p) ==
    IF p = 0
    THEN {e \in EphemeralPorts \ BoundPorts :
            \A f \in EphemeralPorts \ BoundPorts : e <= f}
    ELSE {p} \ BoundPorts

\* AccessServer::new and bind: the listener is bound, or the bind fails.
InBind(c) ==
    /\ pc[c] = "in_bind"
    /\ \/ /\ \E b \in BindChoices(ParseAddr(req[c].addr).port) :
                bound' = [bound EXCEPT ![c] = b]
          /\ rxOpen' = [rxOpen EXCEPT ![c] = TRUE]
          /\ pc' = [pc EXCEPT ![c] = "in_start"]
          /\ UNCHANGED failure
       \/ /\ pc' = [pc EXCEPT ![c] = "in_resp_fail"]
          /\ failure' = [failure EXCEPT ![c] = "bind"]
          /\ UNCHANGED <<bound, rxOpen>>
    /\ UNCHANGED <<serverPc, endpointOpen, incoming, downstreams, outVars, startVars, ports, lockHolder, req,
                   resp, tunnel, active, chan, acc, backlog, ctrl, histVars>>

\* AccessServer::start: the accept task is spawned, or the start fails.
InStart(c) ==
    /\ pc[c] = "in_start"
    /\ \/ /\ acc' = [acc EXCEPT ![c] = "accept"]
          /\ pc' = [pc EXCEPT ![c] = "in_resp_ok"]
          /\ UNCHANGED failure
       \/ /\ pc' = [pc EXCEPT ![c] = "in_resp_fail"]
          /\ failure' = [failure EXCEPT ![c] = "start"]
          /\ UNCHANGED acc
    /\ UNCHANGED <<serverPc, endpointOpen, incoming, downstreams, outVars, startVars, ports, lockHolder, req,
                   resp, tunnel, bound, active, rxOpen, chan, backlog, ctrl,
                   histVars>>

\* The response of a failed In login, by the reason of the failure.
FailureResponse(why) ==
    CASE why = "inuse" -> "RespFailure: remote access port is in use"
      [] why = "bind" -> "RespFailure: access server failed to bind"
      [] why = "start" -> "RespFailure: access server failed to start"
      [] OTHER -> "none"

\* RespFailure is sent and the handshake bails; the lock guard and the
\* access server, when one was created, are dropped.
InRespFail(c) ==
    /\ pc[c] = "in_resp_fail"
    /\ resp' = [resp EXCEPT ![c] = FailureResponse(failure[c])]
    /\ pc' = [pc EXCEPT ![c] = "failed"]
    /\ serverPc' = TaskExit(serverPc, TRUE)
    /\ lockHolder' = 0
    /\ bound' = [bound EXCEPT ![c] = NoPort]
    /\ rxOpen' = [rxOpen EXCEPT ![c] = FALSE]
    /\ UNCHANGED <<endpointOpen, incoming, downstreams, outVars, startVars, ports, req, failure, tunnel,
                   active, chan, acc, backlog, ctrl, histVars>>

\* Vec::push of the requested port
PushPort(v, p) == Append(v, p)

\* RespSuccess is sent; on success the requested port is pushed and the
\* result is TunnelType::In.  When the send fails the handshake bails: the
\* receiver is dropped with the access server, the accept task keeps the
\* listener.
InRespOk(c) ==
    /\ pc[c] = "in_resp_ok"
    /\ resp' = [resp EXCEPT ![c] = "RespSuccess"]
    /\ lockHolder' = 0
    /\ \/ /\ ports' = PushPort(ports, ParseAddr(req[c].addr).port)
          /\ tunnel' = [tunnel EXCEPT ![c] = [kind |-> "In", dst |-> NoAddr]]
          /\ pc' = [pc EXCEPT ![c] = "in_begin"]
          /\ UNCHANGED <<failure, serverPc, rxOpen, chan>>
       \/ /\ Fail(c, "send")
          /\ rxOpen' = [rxOpen EXCEPT ![c] = FALSE]
          /\ chan' = [chan EXCEPT ![c] = <<>>]
          /\ UNCHANGED <<ports, tunnel>>
    /\ UNCHANGED <<endpointOpen, incoming, downstreams, outVars, startVars, req, bound, active, acc, backlog,
                   ctrl, histVars>>

(***************************************************************************)
(* Server::process_out_connection.                                         *)
(***************************************************************************)
\* the errors accept_bi() may return
AcceptErrors == {"TimedOut", "ApplicationClosed", "ConnectionClosed"}

OutLoopExitOk(err) == "done"

\* How the loop ends on an error of accept_bi(): TimedOut and
\* ApplicationClosed return Ok, any other error bails.
OutLoopExit(err) ==
    IF err \in {"TimedOut", "ApplicationClosed"} THEN "done" ELSE "failed"

\* accept_bi() returns an error and the session returns.  The caller
\* swallows the result with .ok().
OutLoopEnd(c) ==
    /\ pc[c] = "out_loop"
    /\ \E e \in AcceptErrors :
         /\ acceptErr' = [acceptErr EXCEPT ![c] = e]
         /\ pc' = [pc EXCEPT ![c] = OutLoopExit(e)]
         /\ failure' = [failure EXCEPT
                          ![c] = IF OutLoopExit(e) = "failed"
                                 THEN "accept_bi" ELSE @]
    /\ serverPc' = TaskExit(serverPc, FALSE)
    /\ UNCHANGED <<endpointOpen, incoming, downstreams, startVars, ports, lockHolder, req, resp,
                   tunnel, lsnVars, ctrl, histVars, streams>>

\* accept_bi() returns a stream: a task is spawned for it and the loop
\* accepts again.
OutAccept(c) ==
    /\ pc[c] = "out_loop"
    /\ Len(streams[c]) < MaxStreams
    /\ streams' = [streams EXCEPT ![c] = Append(@, "spawned")]
    /\ UNCHANGED <<serverPc, endpointOpen, incoming, downstreams, startVars, ports, lockHolder,
                   connVars, lsnVars, ctrl, histVars, acceptErr>>

\* what TcpStream::connect to the destination may yield
DialResults == {"tunnel", "refused"}

\* The task of stream i runs: it dials the destination; the stream is
\* tunnelled, or the dial fails, is logged, and the task ends.
OutDial(c, i) ==
    /\ i \in 1..Len(streams[c])
    /\ streams[c][i] = "spawned"
    /\ \E r \in DialResults :
         streams' = [streams EXCEPT ![c] = [@ EXCEPT ![i] = r]]
    /\ UNCHANGED <<serverPc, endpointOpen, incoming, downstreams, startVars, ports, lockHolder,
                   connVars, lsnVars, ctrl, histVars, acceptErr>>

(***************************************************************************)
(* Server::process_in_connection.                                          *)
(***************************************************************************)
\* The active flag once the forwarder has taken the receiver and is about
\* to enter its receive loop.
TakeTcpReceiver(flag) == TRUE

\* The control watcher is spawned and the receiver taken.
InBegin(c) ==
    /\ pc[c] = "in_begin"
    /\ ctrl' = [ctrl EXCEPT ![c] = "reading"]
    /\ active' = [active EXCEPT ![c] = TakeTcpReceiver(active[c])]
    /\ pc' = [pc EXCEPT ![c] = "fwd_recv"]
    /\ UNCHANGED <<serverPc, endpointOpen, incoming, downstreams, outVars, startVars, ports, lockHolder, req,
                   resp, failure, tunnel, bound, rxOpen, chan, acc, backlog,
                   histVars>>

AfterRecvSkip(msg) == IF msg = "Request" THEN "fwd_recv" ELSE "term_lock"

\* Where the forwarder goes on a received message: a socket is forwarded,
\* Quit leaves the loop.
AfterRecv(msg) == IF msg = "Request" THEN "fwd_open" ELSE "term_lock"

\* tcp_receiver.recv() returns the head of the channel.
FwdRecv(c) ==
    /\ pc[c] = "fwd_recv"
    /\ chan[c] # <<>>
    /\ pc' = [pc EXCEPT ![c] = AfterRecv(Head(chan[c]))]
    /\ chan' = [chan EXCEPT ![c] = Tail(chan[c])]
    /\ UNCHANGED <<serverPc, endpointOpen, incoming, downstreams, outVars, startVars, ports, lockHolder, req,
                   resp, failure, tunnel, bound, active, rxOpen, acc, backlog,
                   ctrl, histVars>>

\* Where the session goes when open_bi() fails: log_and_bail returns at
\* once, past the removal of the port and the shutdown.
AfterOpenFailure == "failed"

\* open_bi(): a stream is opened and handed to the tunnel, or it fails and
\* the session bails, dropping the receiver with the access server.
FwdOpen(c) ==
    /\ pc[c] = "fwd_open"
    /\ \/ /\ pc' = [pc EXCEPT ![c] = "fwd_tunnel"]
          /\ UNCHANGED <<failure, serverPc, rxOpen, chan>>
       \/ /\ pc' = [pc EXCEPT ![c] = AfterOpenFailure]
          /\ failure' = [failure EXCEPT ![c] = "open_bi"]
          /\ serverPc' =
               IF AfterOpenFailure = "failed"
               THEN TaskExit(serverPc, FALSE) ELSE serverPc
          /\ rxOpen' = [rxOpen EXCEPT
                          ![c] = IF AfterOpenFailure = "failed"
                                 THEN FALSE ELSE @]
          /\ chan' = [chan EXCEPT
                        ![c] = IF AfterOpenFailure = "failed" THEN <<>> ELSE @]
    /\ UNCHANGED <<endpointOpen, incoming, downstreams, outVars, startVars, ports, lockHolder, req, resp,
                   tunnel, bound, active, acc, backlog, ctrl, histVars>>

\* The socket and the new stream are split and handed to Tunnel::start;
\* the forwarder receives again.
FwdTunnel(c) ==
    /\ pc[c] = "fwd_tunnel"
    /\ pc' = [pc EXCEPT ![c] = "fwd_recv"]
    /\ UNCHANGED <<serverPc, endpointOpen, incoming, downstreams, outVars, startVars, ports, lockHolder, req,
                   resp, failure, tunnel, lsnVars, ctrl, histVars>>

\* The vector after the session removed the first entry equal to p.
RemovePort(v, p) ==
    IF Position(v, p) # 0 THEN RemoveAt(v, Position(v, p)) ELSE v

\* After the loop: the lock is taken and the listener's port is removed.
TermRemove(c) ==
    /\ pc[c] = "term_lock"
    /\ MutexFree(lockHolder)
    /\ lockHolder' = c
    /\ ports' = RemovePort(ports, bound[c])
    /\ removed' = [removed EXCEPT
                     ![c] = IF Position(ports, bound[c]) # 0 THEN @ + 1 ELSE @]
    /\ pc' = [pc EXCEPT ![c] = "term_shutdown"]
    /\ UNCHANGED <<serverPc, endpointOpen, incoming, downstreams, outVars, startVars, req, resp, failure,
                   tunnel, lsnVars, ctrl, shut>>

\* shutdown: the receiver is dropped and the listener made active.
TermShutdown(c) ==
    /\ pc[c] = "term_shutdown"
    /\ rxOpen' = [rxOpen EXCEPT ![c] = FALSE]
    /\ chan' = [chan EXCEPT ![c] = <<>>]
    /\ active' = [active EXCEPT ![c] = TRUE]
    /\ shut' = [shut EXCEPT ![c] = TRUE]
    /\ pc' = [pc EXCEPT ![c] = "term_dial"]
    /\ UNCHANGED <<serverPc, endpointOpen, incoming, downstreams, outVars, startVars, ports, lockHolder, req,
                   resp, failure, tunnel, bound, acc, backlog, ctrl, removed>>

\* shutdown: the listener's own address is dialled (refused when the accept
\* task is already gone); the session returns Ok and the guard is dropped.
TermDial(c) ==
    /\ pc[c] = "term_dial"
    /\ backlog' = [backlog EXCEPT ![c] = IF bound[c] # NoPort THEN @ + 1 ELSE @]
    /\ pc' = [pc EXCEPT ![c] = "done"]
    /\ serverPc' = TaskExit(serverPc, FALSE)
    /\ lockHolder' = 0
    /\ UNCHANGED <<endpointOpen, incoming, downstreams, outVars, startVars, ports, req, resp, failure, tunnel,
                   bound, active, rxOpen, chan, acc, ctrl, histVars>>

SendOutcomeNeverClosed(open, len) == IF len < ChannelCap THEN "sent" ELSE "wait"

SendOutcomeNoRoom(open, len) == IF ~open THEN "closed" ELSE "wait"

SendOutcomeUnbounded(open, len) == IF ~open THEN "closed" ELSE "sent"

\* What send does with a message, by the state of the channel: it fails
\* when the receiver is gone, enqueues when there is room, waits otherwise.
SendOutcome(open, len) ==
    IF ~open THEN "closed" ELSE IF len < ChannelCap THEN "sent" ELSE "wait"

\* The control watcher: the read on the control stream completes with a
\* message, EOF or an error, and send(None) is polled: the quit message is
\* enqueued, or the send fails (ignored), or it waits for room.
CtrlRead(c) ==
    /\ ctrl[c] = "reading"
    /\ LET o == SendOutcome(rxOpen[c], Len(chan[c]))
       IN  /\ chan' = [chan EXCEPT ![c] = IF o = "sent" THEN Append(@, "Quit") ELSE @]
           /\ ctrl' = [ctrl EXCEPT ![c] = IF o = "wait" THEN "sending" ELSE "done"]
    /\ UNCHANGED <<serverPc, endpointOpen, incoming, downstreams, outVars, startVars, ports, lockHolder,
                   connVars, bound, active, rxOpen, acc, backlog, histVars>>

\* The control watcher: the waiting send(None) completes.
CtrlSend(c) ==
    /\ ctrl[c] = "sending"
    /\ LET o == SendOutcome(rxOpen[c], Len(chan[c]))
       IN  /\ o # "wait"
           /\ chan' = [chan EXCEPT ![c] = IF o = "sent" THEN Append(@, "Quit") ELSE @]
    /\ ctrl' = [ctrl EXCEPT ![c] = "done"]
    /\ UNCHANGED <<serverPc, endpointOpen, incoming, downstreams, outVars, startVars, ports, lockHolder,
                   connVars, bound, active, rxOpen, acc, backlog, histVars>>

(***************************************************************************)
(* The access listener: its accept task and the external TCP clients.      *)
(***************************************************************************)
AcceptOutcomeIgnoresFlag(flag, open, len) == SendOutcome(open, len)

\* What the accept task does with an accepted socket: while the flag is
\* false it drops the socket and accepts again, otherwise it sends it.
AcceptOutcome(flag, open, len) ==
    IF ~flag THEN "drop" ELSE SendOutcome(open, len)

\* The accept task after one outcome of accepting or sending.  A closed
\* channel ends the task, which drops the listener.
AccStep(c, o) ==
    /\ chan' = [chan EXCEPT ![c] = IF o = "sent" THEN Append(@, "Request") ELSE @]
    /\ acc' = [acc EXCEPT
                 ![c] = CASE o = "closed" -> "ended"
                          [] o = "wait" -> "send"
                          [] OTHER -> "accept"]
    /\ bound' = [bound EXCEPT ![c] = IF o = "closed" THEN NoPort ELSE @]

\* An external TCP client connects to the bound listener.  The task of an
\* active listener waiting in accept() takes the socket and polls
\* send_timeout; otherwise the connection waits in the listener's backlog.
ExtConnect(c) ==
    /\ bound[c] # NoPort
    /\ IF acc[c] = "accept" /\ backlog[c] = 0 /\ active[c]
       THEN /\ AccStep(c, AcceptOutcome(active[c], rxOpen[c], Len(chan[c])))
            /\ UNCHANGED backlog
       ELSE /\ backlog[c] < MaxBacklog
            /\ backlog' = [backlog EXCEPT ![c] = @ + 1]
            /\ UNCHANGED <<bound, chan, acc>>
    /\ UNCHANGED <<serverPc, endpointOpen, incoming, downstreams, outVars, startVars, ports, lockHolder,
                   connVars, active, rxOpen, ctrl, histVars>>

\* tcp_listener.accept() returns a socket that waited in the backlog, and
\* send_timeout is polled.
AccAccept(c) ==
    /\ acc[c] = "accept"
    /\ backlog[c] > 0
    /\ LET o == AcceptOutcome(active[c], rxOpen[c], Len(chan[c]))
       IN  /\ AccStep(c, o)
           /\ backlog' = [backlog EXCEPT ![c] = IF o = "closed" THEN 0 ELSE @ - 1]
    /\ UNCHANGED <<serverPc, endpointOpen, incoming, downstreams, outVars, startVars, ports, lockHolder,
                   connVars, active, rxOpen, ctrl, histVars>>

\* send_timeout: the waiting send completes before the timeout.
AccSend(c) ==
    /\ acc[c] = "send"
    /\ LET o == SendOutcome(rxOpen[c], Len(chan[c]))
       IN  /\ o # "wait"
           /\ AccStep(c, o)
           /\ backlog' = [backlog EXCEPT ![c] = IF o = "closed" THEN 0 ELSE @]
    /\ UNCHANGED <<serverPc, endpointOpen, incoming, downstreams, outVars, startVars, ports, lockHolder,
                   connVars, active, rxOpen, ctrl, histVars>>

\* send_timeout: the channel stayed full for 3 seconds; the socket is
\* dropped and the task accepts again.
AccTimeout(c) ==
    /\ acc[c] = "send"
    /\ SendOutcome(rxOpen[c], Len(chan[c])) = "wait"
    /\ acc' = [acc EXCEPT ![c] = "accept"]
    /\ UNCHANGED <<serverPc, endpointOpen, incoming, downstreams, outVars, startVars, ports, lockHolder,
                   connVars, bound, active, rxOpen, chan, backlog, ctrl,
                   histVars>>

(***************************************************************************)
(* The specification.                                                      *)
(***************************************************************************)
Next ==
    \/ EndpointStop
    \/ \E c \in Conn : AcceptConn(c)
    \/ \E c \in Conn : Connecting(c)
    \/ \E c \in Conn : LoginRecvFail(c)
    \/ \E c \in Conn : \E m \in LoginMessages : LoginRecv(c, m)
    \/ \E c \in Conn : OutResp(c)
    \/ \E c \in Conn : OutLoopEnd(c)
    \/ \E c \in Conn : OutAccept(c)
    \/ \E c \in Conn : \E i \in 1..MaxStreams : OutDial(c, i)
    \/ \E c \in Conn : InLock(c)
    \/ \E c \in Conn : InBind(c)
    \/ \E c \in Conn : InStart(c)
    \/ \E c \in Conn : InRespFail(c)
    \/ \E c \in Conn : InRespOk(c)
    \/ \E c \in Conn : InBegin(c)
    \/ \E c \in Conn : FwdRecv(c)
    \/ \E c \in Conn : FwdOpen(c)
    \/ \E c \in Conn : FwdTunnel(c)
    \/ \E c \in Conn : TermRemove(c)
    \/ \E c \in Conn : TermShutdown(c)
    \/ \E c \in Conn : TermDial(c)
    \/ \E c \in Conn : CtrlRead(c)
    \/ \E c \in Conn : CtrlSend(c)
    \/ \E c \in Conn : ExtConnect(c)
    \/ \E c \in Conn : AccAccept(c)
    \/ \E c \in Conn : AccSend(c)
    \/ \E c \in Conn : AccTimeout(c)

Spec == Init /\ [][Next]_vars

SpecOne == InitOne /\ [][Next]_vars

\* start() from its beginning up to the accept loop
NextStart ==
    \/ \E readable \in SUBSET {"cert.pem", "key.pem"} : ReadCertAndKey(readable)
    \/ ConfigureTransport

SpecStart == InitStart /\ [][NextStart]_vars

\* The scheduler runs every task that can take a step; what the clients
\* and the endpoint do (connecting, sending, closing) is not forced.  The
\* channel serves its waiting senders in turn, so a waiting send that can
\* complete again and again does complete.
Fairness ==
    \A c \in Conn :
        /\ WF_vars(InLock(c))
        /\ WF_vars(InBind(c))
        /\ WF_vars(InStart(c))
        /\ WF_vars(InRespFail(c))
        /\ WF_vars(InRespOk(c))
        /\ WF_vars(InBegin(c))
        /\ WF_vars(FwdRecv(c))
        /\ WF_vars(FwdOpen(c))
        /\ WF_vars(FwdTunnel(c))
        /\ WF_vars(TermRemove(c))
        /\ WF_vars(TermShutdown(c))
        /\ WF_vars(TermDial(c))
        /\ SF_vars(CtrlSend(c))
        /\ WF_vars(AccAccept(c))
        /\ SF_vars(AccSend(c))
        /\ WF_vars(AccTimeout(c))

FairSpec == InitOne /\ [][Next]_vars /\ Fairness

(***************************************************************************)
(* Vocabulary of the properties.                                           *)
(***************************************************************************)
\* the port an In login asked for
InPort(c) == ParseAddr(req[c].addr).port

\* the handshake of c returned TunnelType::In
InSession(c) == tunnel[c].kind = "In"

\* an In session that has not yet begun to release its port
LiveIn(c) ==
    /\ InSession(c)
    /\ pc[c] \in {"in_begin", "fwd_recv", "fwd_open", "fwd_tunnel", "term_lock"}

\* process_in_connection has returned
InReturned(c) == InSession(c) /\ pc[c] \in {"done", "failed"}

\* the port numbers that occur in the model
ModelPorts == {0, 1} \cup EphemeralPorts

(***************************************************************************)
(* C1: a port is in allocated_ports iff a live In session's listener is    *)
(* bound to it.                                                            *)
(***************************************************************************)
\* C1: in every reachable state, p is in allocated_ports if and only if
\* some live In-mode session has its access listener bound to p.
C1_PortsAreBoundPorts ==
    \A p \in ModelPorts :
        Contains(ports, p) <=> \E c \in Conn : LiveIn(c) /\ bound[c] = p

(***************************************************************************)
(* C2: every exit of the forwarder loop removes the port once and shuts    *)
(* the listener down before process_in_connection returns.                 *)
(***************************************************************************)
\* C2: whenever process_in_connection has returned, whatever ended the
\* forwarder loop, the session has removed its port from allocated_ports
\* exactly once and has shut its access listener down.
C2_ReturnAfterRelease ==
    \A c \in Conn : InReturned(c) => removed[c] = 1 /\ shut[c]

(***************************************************************************)
(* C3: once the control read completes, the session ends, the listener     *)
(* closes and the port is freed.                                           *)
(***************************************************************************)
\* the control watcher's read has completed
ControlFired(c) == ctrl[c] \in {"sending", "done"}

\* the session is over, its listener closed and its port free
Released(c) ==
    /\ pc[c] \in {"done", "failed"}
    /\ bound[c] = NoPort
    /\ ~Contains(ports, InPort(c))

\* C3: after a successful In-mode login on a port p (here p # 0, the port
\* the listener is then bound to), once the control-channel read has
\* completed (whatever is queued on the channel at that moment), the
\* session eventually ends, its listener is closed and p is no longer in
\* allocated_ports.
C3_ControlReadReleases ==
    \A c \in Conn :
        (InSession(c) /\ InPort(c) # 0 /\ ControlFired(c)) ~> Released(c)

(***************************************************************************)
(* C4: an In login on a port that is in allocated_ports.                   *)
(***************************************************************************)
\* the requested port is in the vector (stated on the vector itself)
PortHeld(c) == \E i \in 1..Len(ports) : ports[i] = InPort(c)

\* the handshake of c has gone past the lookup of its port in this step
LookedUp(c) == pc[c] = "in_lock" /\ pc'[c] # "in_lock"

\* the handshake of c is failing, or has failed, on a port in use
InUseFailure(c) == failure[c] = "inuse" /\ pc[c] \in {"in_resp_fail", "failed"}

\* C4: an In-mode login that requests a port currently in allocated_ports
\* is sent RespFailure("remote access port is in use") and fails the
\* handshake; it binds no listener socket and leaves allocated_ports
\* unchanged.
C4_PortInUseRejected ==
    /\ [][\A c \in Conn :
            /\ LookedUp(c) /\ PortHeld(c) => InUseFailure(c)' /\ ports' = ports
            /\ pc[c] = "in_resp_fail" /\ InUseFailure(c)
                 => ports' = ports /\ bound'[c] = NoPort]_vars
    /\ [](\A c \in Conn :
            InUseFailure(c) =>
                /\ bound[c] = NoPort /\ acc[c] = "none"
                /\ pc[c] = "failed" =>
                     resp[c] = "RespFailure: remote access port is in use")

\* a second login on a held port has been rejected
C4_Witness ==
    \E c \in Conn :
        /\ pc[c] = "failed" /\ failure[c] = "inuse"
        /\ resp[c] = "RespFailure: remote access port is in use"
        /\ PortHeld(c)

(***************************************************************************)
(* C5: every protocol-visible handshake failure is answered.               *)
(***************************************************************************)
ProtocolVisible == {"password", "inuse", "bind", "start", "denied"}

ResponseIsFailure(r) ==
    r \in {"RespFailure: remote access port is in use",
           "RespFailure: access server failed to bind",
           "RespFailure: access server failed to start",
           "RespFailure: passwords don't match",
           "RespFailure: invalid addr"}

\* C5: when a login handshake has failed for a protocol-visible reason
\* (wrong password, port in use, bind failure, start failure, destination
\* not in the allow-list), a RespFailure was sent on the login stream.
C5_FailureAnswered ==
    \A c \in Conn :
        pc[c] = "failed" /\ failure[c] \in ProtocolVisible
          => ResponseIsFailure(resp[c])

(***************************************************************************)
(* C6: a failing handshake does not touch allocated_ports, and a wrong     *)
(* password is never answered with RespSuccess.                            *)
(***************************************************************************)
HandshakePcs ==
    {"connecting", "login", "out_resp", "in_lock", "in_bind", "in_start",
     "in_resp_fail", "in_resp_ok"}

\* connection c takes a step of its handshake
HandshakeStep(c) == pc[c] \in HandshakePcs /\ pc'[c] # pc[c]

\* C6: no step of a login handshake changes allocated_ports, except the
\* step that completes a successful In login; so every handshake that fails
\* leaves the vector as it was.  RespSuccess is never sent on a connection
\* whose password differs from the configured one.
C6_FailedLoginKeepsPorts ==
    /\ [][\A c \in Conn :
            HandshakeStep(c) /\ pc'[c] # "in_begin" => ports' = ports]_vars
    /\ [](\A c \in Conn :
            resp[c] = "RespSuccess" => req[c].password = ConfigPassword)

\* a handshake has failed after its listener was bound, with a port held
C6_Witness ==
    \E c \in Conn :
        pc[c] = "failed" /\ failure[c] \in {"start", "send"} /\ ports # <<>>

(***************************************************************************)
(* C7: a first message that is no login request.                           *)
(***************************************************************************)
\* C7: when the first message is neither ReqOutLogin nor ReqInLogin, the
\* handshake fails as an unexpected message: no response is sent, the port
\* lock is not taken and no listener is bound.
C7_UnexpectedMessage ==
    \A c \in Conn :
        req[c] # NoMessage /\ req[c].kind \notin {"ReqOutLogin", "ReqInLogin"}
          => /\ pc[c] = "failed" /\ failure[c] = "unexpected"
             /\ resp[c] = "none"
             /\ lockHolder # c
             /\ bound[c] = NoPort /\ acc[c] = "none"

\* a connection whose first message was RespSuccess has failed
C7_Witness ==
    \E c \in Conn : req[c].kind = "RespSuccess" /\ pc[c] = "failed"

(***************************************************************************)
(* C8: the acceptance condition of an Out login.                           *)
(***************************************************************************)
\* the handshake of an Out login is over
OutLoginOver(c) ==
    req[c].kind = "ReqOutLogin" /\ pc[c] \in {"failed", "out_loop", "done"}

\* password, address and allow-list all accept the login
OutAcceptable(c) ==
    /\ req[c].password = ConfigPassword
    /\ ParseAddr(req[c].addr) # NoAddr
    /\ downstreams = {} \/ ParseAddr(req[c].addr) \in downstreams

OutTunnel(c) == tunnel[c] = [kind |-> "Out", dst |-> ParseAddr(req[c].addr)]

\* C8 as stated: an Out login is answered with RespSuccess and yields an
\* Out tunnel to dst if and only if the password is the configured one,
\* dst_addr parses, and the allow-list is empty or contains dst.
C8_OutLoginIff ==
    \A c \in Conn :
        OutLoginOver(c) =>
            ((resp[c] = "RespSuccess" /\ OutTunnel(c)) <=> OutAcceptable(c))

\* C8 amended: RespSuccess is sent if and only if the login is acceptable;
\* the Out tunnel to dst results if and only if, in addition, sending
\* RespSuccess did not fail.
C8_OutLoginIffSent ==
    \A c \in Conn :
        OutLoginOver(c) =>
            /\ resp[c] = "RespSuccess" <=> OutAcceptable(c)
            /\ OutTunnel(c) <=> (OutAcceptable(c) /\ failure[c] # "send")

\* without an allow-list, a destination outside AllowList was accepted
C8_Witness ==
    \E c \in Conn :
        /\ downstreams = {}
        /\ OutTunnel(c) /\ tunnel[c].dst \notin AllowList
        /\ resp[c] = "RespSuccess"

(***************************************************************************)
(* C9: failures of per-connection tasks never end the accept loop.         *)
(***************************************************************************)
\* C9: a step in which a per-connection task fails leaves the accept loop
\* where it was, and the loop has ended (start() has returned) only when
\* the endpoint stopped producing connections.
C9_AcceptLoopSurvives ==
    /\ [][(\E c \in Conn : pc'[c] = "failed" /\ pc[c] # "failed")
            => serverPc' = serverPc]_vars
    /\ [](serverPc = "quit" => ~endpointOpen)

\* a task has failed and the loop still accepts the next connection
C9_Witness ==
    /\ \E c \in Conn : pc[c] = "failed"
    /\ \E c \in Conn : pc[c] = "idle" /\ ENABLED AcceptConn(c)

(***************************************************************************)
(* C10: after an In login, connections to the listener reach the client.   *)
(***************************************************************************)
\* the accept task takes a connection and drops it, the listener inactive
DropStep(c) ==
    /\ acc[c] = "accept" /\ acc'[c] = "accept"
    /\ backlog'[c] < backlog[c]
    /\ chan'[c] = chan[c]

\* an accepted socket is queued for the forwarder
SocketQueued(c) ==
    rxOpen[c] /\ \E i \in 1..Len(chan[c]) : chan[c][i] = "Request"

\* C10 as stated: once the In login has succeeded (and while the client is
\* alive), the listener does not drop a connection it accepts: the
\* connection goes to the forwarder.
C10_AcceptedAfterLoginKept ==
    [][\A c \in Conn : LiveIn(c) /\ ~ControlFired(c) => ~DropStep(c)]_vars

\* C10 amended: after a successful In login the requested port is in
\* allocated_ports; once the forwarder has activated the listener, an
\* accepted connection is not dropped, and a socket queued for the
\* forwarder leads to a stream being opened on the client's connection,
\* unless open_bi fails or the control read has completed.
C10_ActivatedListenerForwards ==
    /\ [](\A c \in Conn : LiveIn(c) => Contains(ports, InPort(c)))
    /\ [][\A c \in Conn : LiveIn(c) /\ active[c] => ~DropStep(c)]_vars
    /\ \A c \in Conn :
         SocketQueued(c)
           ~> (pc[c] = "fwd_tunnel" \/ failure[c] = "open_bi" \/ ControlFired(c))

\* a stream has been opened for an accepted socket of a live session whose
\* client has sent nothing on the control stream
C10_Witness ==
    \E c \in Conn :
        /\ pc[c] = "fwd_tunnel" /\ ~ControlFired(c)
        /\ Contains(ports, InPort(c))

(***************************************************************************)
(* C11: how an Out session ends, and what a failed dial does to it.        *)
(***************************************************************************)
\* the task of stream i of c dials the destination in this step
Dials(c, i) ==
    /\ i \in 1..Len(streams[c])
    /\ streams[c][i] = "spawned"
    /\ streams'[c][i] # "spawned"

\* a dial of c fails in this step
DialFails(c) ==
    \E i \in 1..MaxStreams : Dials(c, i) /\ streams'[c][i] = "refused"

\* C11: an Out session has returned Ok exactly when accept_bi returned
\* TimedOut or ApplicationClosed, and has returned an error on any other
\* accept error; a step in which a dial fails changes nothing but that
\* stream's task, and the session still accepts the next stream.
C11_OutSessionEnds ==
    /\ [](\A c \in Conn :
            acceptErr[c] # "none" =>
                IF acceptErr[c] \in {"TimedOut", "ApplicationClosed"}
                THEN pc[c] = "done" /\ failure[c] = "none"
                ELSE pc[c] = "failed" /\ failure[c] = "accept_bi")
    /\ [][\A c \in Conn :
            DialFails(c) =>
                /\ pc' = pc /\ serverPc' = serverPc
                /\ Len(streams'[c]) = Len(streams[c])
                /\ \A j \in 1..Len(streams[c]) :
                     ~Dials(c, j) => streams'[c][j] = streams[c][j]]_vars
    /\ [](\A c \in Conn :
            pc[c] = "out_loop" /\ Len(streams[c]) < MaxStreams
              => ENABLED OutAccept(c))

\* the dial of the first stream has failed and the session accepts another
C11_Witness ==
    \E c \in Conn :
        /\ streams[c] = <<"refused">>
        /\ pc[c] = "out_loop"
        /\ ENABLED OutAccept(c)

(***************************************************************************)
(* C12: one dial per accepted stream, in the order of the streams.         *)
(***************************************************************************)
\* C12: each accepted stream is dialled at most once, and a stream is
\* dialled only when every stream accepted before it on the same connection
\* has been dialled: the dials start in the order of the streams.
C12_DialOrderIsStreamOrder ==
    [][\A c \in Conn : \A i \in 1..MaxStreams :
         /\ Dials(c, i) => \A j \in 1..(i - 1) : streams[c][j] # "spawned"
         /\ i \in 1..Len(streams[c]) /\ streams[c][i] # "spawned"
              => streams'[c][i] = streams[c][i]]_vars

(***************************************************************************)
(* C13: what an active listener does with the sockets it accepts.          *)
(***************************************************************************)
\* the accept task gives up a timed send: the socket in hand is dropped
TimeoutDrop(c) ==
    /\ acc[c] = "send" /\ acc'[c] = "accept"
    /\ chan'[c] = chan[c]

\* the accept task of c ends in this step
AcceptTaskEnds(c) == acc[c] \in {"accept", "send"} /\ acc'[c] = "ended"

\* C13 as stated: while the listener is active and its receiver exists, the
\* accept task discards no socket it has accepted.
C13_ActiveDelivers ==
    [][\A c \in Conn :
         active[c] /\ rxOpen[c] => ~DropStep(c) /\ ~TimeoutDrop(c)]_vars

\* C13 amended: while the listener is active and its receiver exists, an
\* accepted socket is enqueued at once when the channel has room; the task
\* waits in the timed send only when the channel is full, and it discards
\* a socket only by giving up that send with the channel still full.  The
\* task does not end while the receiver exists.
C13_ActiveDeliversUnlessFull ==
    [][\A c \in Conn :
         active[c] /\ rxOpen[c] =>
             /\ ~DropStep(c)
             /\ ~AcceptTaskEnds(c)
             /\ acc[c] = "accept" /\ acc'[c] = "send"
                  => Len(chan[c]) = ChannelCap
             /\ TimeoutDrop(c) => Len(chan[c]) = ChannelCap
             /\ acc[c] = "send" /\ acc'[c] = "accept" /\ ~TimeoutDrop(c)
                  => chan'[c] = Append(chan[c], "Request")]_vars

\* an active listener has delivered a socket and accepts again
C13_Witness ==
    \E c \in Conn :
        /\ active[c] /\ rxOpen[c] /\ acc[c] = "accept"
        /\ chan[c] # <<>> /\ chan[c][Len(chan[c])] = "Request"

(***************************************************************************)
(* C14: concurrent In logins on the same port.                             *)
(***************************************************************************)
\* the handshake of c is between the lookup of its port and the insert
InCritical(c) == pc[c] \in {"in_bind", "in_start", "in_resp_ok", "in_resp_fail"}

\* C14: a login holds the port lock from the lookup of its port to the
\* insert (or to its failure), so no other login or termination runs in
\* between; no two live In sessions were granted the same port, and
\* allocated_ports never contains the same port twice.
C14_LoginsAtomic ==
    /\ \A c \in Conn : InCritical(c) => lockHolder = c
    /\ \A c, d \in Conn :
         c # d /\ LiveIn(c) /\ LiveIn(d)
           => resp[c] = "RespSuccess" /\ InPort(c) # InPort(d)
    /\ \A i, j \in 1..Len(ports) : i # j => ports[i] # ports[j]

\* a login waits for the lock while another login on the same port is
\* between its lookup and its insert
C14_Witness ==
    \E c, d \in Conn :
        /\ c # d /\ InPort(c) = InPort(d)
        /\ lockHolder = c /\ pc[c] \in {"in_bind", "in_start", "in_resp_ok"}
        /\ pc[d] = "in_lock"

(***************************************************************************)
(* C15: the port lock and the suspension points.                           *)
(***************************************************************************)
\* positions at which a task is suspended on I/O: binding the listener,
\* sending a response on the login stream, dialling the listener's address
IoPcs == {"in_bind", "in_resp_fail", "in_resp_ok", "term_dial"}

\* C15: no task holds the allocated_ports lock while it is suspended on
\* I/O (a bind, a send on the login stream, the dial of shutdown).
C15_NoLockAcrossIo ==
    \A c \in Conn : lockHolder = c => pc[c] \notin IoPcs

(***************************************************************************)
(* C16: the listener before its activation.                                *)
(***************************************************************************)
\* the forwarder of c has passed the point where it enters its receive loop
Forwarding(c) ==
    InSession(c) /\ pc[c] \in {"fwd_recv", "fwd_open", "fwd_tunnel", "term_lock"}

\* C16: the active flag is false until the forwarder is about to enter its
\* receive loop and true from then on; while it is false the channel stays
\* empty, no step enqueues anything, and the accept task, once started,
\* stays in its accept loop (it closes what it accepts and accepts again).
C16_InactiveUntilForwarding ==
    /\ [](\A c \in Conn :
            /\ ~InSession(c) \/ pc[c] = "in_begin" => ~active[c]
            /\ Forwarding(c) => active[c]
            /\ ~active[c] => chan[c] = <<>>)
    /\ [][\A c \in Conn :
            ~active[c] =>
                /\ chan'[c] = chan[c]
                /\ acc[c] = "accept" => acc'[c] = "accept"
                /\ active'[c] => pc[c] = "in_begin" /\ pc'[c] = "fwd_recv"]_vars

\* after a successful login and before the activation, the accept task is
\* about to close a connection it accepts
C16_Witness ==
    \E c \in Conn :
        /\ pc[c] = "in_begin" /\ ~active[c]
        /\ ENABLED (AccAccept(c) /\ DropStep(c))

(***************************************************************************)
(* C17: the bounded channel and the timed send.                            *)
(***************************************************************************)
\* the accept task holds a socket that the full channel does not take
SendBlocked(c) ==
    acc[c] = "send" /\ rxOpen[c] /\ Len(chan[c]) = ChannelCap

\* C17: the channel never holds more than ChannelCap messages; a timed
\* send that is blocked on the full channel can only end by the socket
\* being dropped, the task accepting again with its listener still bound;
\* and the accept task ends only in a step in which it finds the channel
\* closed.
C17_ChannelBounded ==
    /\ [](\A c \in Conn : Len(chan[c]) <= ChannelCap)
    /\ [][\A c \in Conn :
            /\ SendBlocked(c) /\ acc'[c] # "send"
                 => TimeoutDrop(c) /\ bound'[c] = bound[c]
            /\ AcceptTaskEnds(c) => ~rxOpen[c]]_vars

\* the channel is full, the accept task waits in the timed send, and the
\* timeout can fire
C17_Witness ==
    \E c \in Conn :
        /\ SendBlocked(c)
        /\ ENABLED (AccTimeout(c) /\ TimeoutDrop(c))

(***************************************************************************)
(* C18: shutdown ends the accept task.                                     *)
(***************************************************************************)
\* the accept task of c has ended and its listening socket is released
ListenerClosed(c) == acc[c] = "ended" /\ bound[c] = NoPort

\* C18: once shutdown is called on the listener of c (the receiver is
\* dropped, the flag set and the listener's address dialled), the accept
\* task eventually finds the channel closed and ends, which releases the
\* listening socket; this from a task waiting in accept and from a task
\* waiting in a timed send on a full channel.
C18_ShutdownEndsAcceptTask ==
    \A c \in Conn :
        /\ (pc[c] = "term_shutdown" /\ acc[c] = "accept") ~> ListenerClosed(c)
        /\ (pc[c] = "term_shutdown" /\ acc[c] = "send") ~> ListenerClosed(c)
        /\ shut[c] ~> ListenerClosed(c)

\* shutdown has returned and the accept task has ended
C18_Witness ==
    \E c \in Conn : shut[c] /\ pc[c] = "done" /\ ListenerClosed(c)

(***************************************************************************)
(* C19: idle timeout and keep-alive interval.                              *)
(***************************************************************************)
\* the transport has been configured
Configured == serverPc = "accept"

\* C19: once the transport is configured, for max_idle_timeout_ms > 0 the
\* idle timeout is exactly max_idle_timeout_ms, also when that does not
\* fit in 32 bits, and the keep-alive interval is half of it; for 0 both
\* are unset.
C19_IdleTimeoutExact ==
    Configured =>
        IF IsZero(maxIdleTimeoutMs)
        THEN idleTimeout = Unset /\ keepAlive = Unset
        ELSE /\ idleTimeout = maxIdleTimeoutMs
             /\ keepAlive # Unset
             /\ \A i \in 1..4 :
                  keepAlive[i] * 2 + (maxIdleTimeoutMs[i] % 2)
                    = maxIdleTimeoutMs[i]
                        + (IF i < 4 THEN (maxIdleTimeoutMs[i + 1] % 2) * Limb ELSE 0)

(***************************************************************************)
(* C20: where the certificate comes from.                                  *)
(***************************************************************************)
BothPaths == certPath # "" /\ keyPath # ""
NoPaths == certPath = "" /\ keyPath = ""

\* C20: once read_cert_and_key has run, certificate and key were read from
\* disk exactly when both paths are non-empty; in every other case the
\* self-signed certificate was generated and the warning logged; and the
\* self-signed certificate was generated only when both paths are empty.
C20_CertSource ==
    serverPc # "read_cert" =>
        /\ certSource = "disk" <=> BothPaths
        /\ ~BothPaths => certSource = "generated" /\ warned
        /\ certSource = "generated" => NoPaths

(***************************************************************************)
(* C21: the port inserted at login and the port removed at termination.    *)
(***************************************************************************)
\* the session of c looks its port up and removes it in this step
RemovalStep(c) == pc[c] = "term_lock" /\ pc'[c] = "term_shutdown"

\* C21: for every requested port, port 0 included, the step in which a
\* session looks up and removes its port finds and removes the value that
\* its login inserted, so that the vector is again what it was without
\* that login.
C21_RemovesWhatWasInserted ==
    [][\A c \in Conn :
         RemovalStep(c) =>
             /\ Contains(ports, InPort(c))
             /\ ports' = RemovePort(ports, InPort(c))
             /\ removed'[c] = removed[c] + 1]_vars

(***************************************************************************)
(* C22: the listener of an In handshake that failed after the bind.        *)
(***************************************************************************)
\* the In handshake of c has failed
InHandshakeFailed(c) ==
    req[c].kind = "ReqInLogin" /\ pc[c] = "failed" /\ ~InSession(c)

\* C22: once an In handshake has failed, also after its listener was
\* bound or started (start failure, failure to send RespFailure or
\* RespSuccess), no listener socket is bound for that connection and no
\* accept task runs for it.
C22_FailedHandshakeLeavesNoListener ==
    \A c \in Conn :
        InHandshakeFailed(c) => bound[c] = NoPort /\ acc[c] \notin {"accept", "send"}

====
